---- MODULE Spec2Model ----
(***************************************************************************)
(* Model of daemon/tmux_example.py: the command-line dispatch and the two  *)
(* demonstration routines demo_basic_usage and demo_interactive_control.   *)
(* The TmuxController collaborator is external: every call into it either  *)
(* returns a value of the type the script uses it at, or raises.           *)
(*                                                                         *)
(* trace is the sequence of externally visible events of the run, in       *)
(* program order: controller calls, print statements and sleeps.           *)
(* Times are in milliseconds (0.3 s = 300).                                *)
(***************************************************************************)
EXTENDS Integers, Sequences, FiniteSets

VARIABLES argv, pc, status, entered, sessions, session, ctrl, info, result,
          content, i, trace

vars == <<argv, pc, status, entered, sessions, session, ctrl, info, result,
          content, i, trace>>

----------------------------------------------------------------------------
(* Bounds of the explored inputs *)

MaxArgs == 2

MaxSessions == 2

MaxInfo == 2

(* Input alphabets *)

ArgWords == {"--interactive", "--interactive-x", "--other"}

SessionNames == {"main", "work"}

InfoKeys == <<"pane_id", "pane_width", "pane_height">>

InfoVals == {"%0", "80"}

Outputs == {"", "/root"}

None == "None"

SeqsUpTo(S, n) == UNION {[1..k -> S] : k \in 0..n}

ArgvSet == SeqsUpTo(ArgWords, MaxArgs)

SessionLists == SeqsUpTo(SessionNames, MaxSessions)

(* A pane-info mapping in iteration order: distinct keys, any values. *)
InfoMaps ==
    UNION {[1..k -> {<<InfoKeys[j], v>> : j \in 1..MaxInfo, v \in InfoVals}]
             : k \in 0..MaxInfo}

PaneInfos == {m \in InfoMaps :
                \A a, b \in 1..Len(m) : a # b => m[a][1] # m[b][1]}

----------------------------------------------------------------------------
(* Events.  res is "raise" for a call that raised; for a call that       *)
(* returned it is "True" or "False" for session_exists and "ok" otherwise  *)
(* (the returned value is then in the variable the script assigns it to).  *)

Ev(kind, op, args, num, res) ==
    [kind |-> kind, op |-> op, args |-> args, num |-> num, res |-> res]

Call(op, args, num, res) == Ev("call", op, args, num, res)

Out(tag, args) == Ev("print", tag, args, 0, "-")

Sleep(ms) == Ev("sleep", "time.sleep", <<>>, ms, "-")

(* Program constants *)

PwdWait == 300

LsWait == 500

CaptureStart == -10

SendPause == 200

(* Variant: one command is listed twice. *)
commandsRepeated == <<"echo 'Starting task...'", "date", "date", "hostname",
                      "echo 'Task complete!'">>

commands == <<"echo 'Starting task...'", "date", "hostname",
              "echo 'Task complete!'">>

----------------------------------------------------------------------------
(* Pure helpers of the script *)

(* Variant: the flag is looked for anywhere on the command line. *)
IsInteractiveAnywhere(args) ==
    \E k \in 1..Len(args) : args[k] = "--interactive"

IsInteractive(args) == Len(args) > 0 /\ args[1] = "--interactive"

NotSessions(s) == s = <<>>

(* Variant: the most recently listed session is selected. *)
FirstSessionLast(s) == s[Len(s)]

FirstSession(s) == s[1]

----------------------------------------------------------------------------
Init ==
    /\ argv \in ArgvSet
    /\ pc = "main"
    /\ status = "running"
    /\ entered = {}
    /\ sessions = <<>>
    /\ session = None
    /\ ctrl = None
    /\ info = <<>>
    /\ result = None
    /\ content = None
    /\ i = 0
    /\ trace = <<>>

(* Variant: the exception is caught and the statement is left to run      *)
(* again.                                                                  *)
RaiseSwallowed(ev) ==
    /\ trace' = Append(trace, ev)
    /\ UNCHANGED <<status, pc>>

(* An unhandled exception raised by the call ev: the interpreter unwinds   *)
(* every frame and the process exits with a failure.                       *)
Raise(ev) ==
    /\ trace' = Append(trace, ev)
    /\ status' = "failed"
    /\ pc' = "exit"

(* A function returns normally to the module level, which then ends. *)
Return ==
    /\ status' = "done"
    /\ pc' = "exit"

Main ==
    /\ pc = "main"
    /\ IF IsInteractive(argv)
         THEN /\ pc' = "i57"
              /\ entered' = entered \cup {"interactive"}
         ELSE /\ pc' = "b13"
              /\ entered' = entered \cup {"basic"}
    /\ UNCHANGED <<argv, status, sessions, session, ctrl, info, result,
                   content, i, trace>>

----------------------------------------------------------------------------
(* demo_basic_usage *)

BasicHeader ==
    /\ pc = "b13"
    /\ trace' = Append(trace, Out("sessions_header", <<>>))
    /\ pc' = "b14"
    /\ UNCHANGED <<argv, status, entered, sessions, session, ctrl, info,
                   result, content, i>>

BasicListSessions ==
    /\ pc = "b14"
    /\ \/ \E s \in SessionLists :
            /\ sessions' = s
            /\ trace' = Append(trace, Call("list_sessions", <<>>, 0, "ok"))
            /\ pc' = "b15"
            /\ UNCHANGED status
       \/ /\ Raise(Call("list_sessions", <<>>, 0, "raise"))
          /\ UNCHANGED sessions
    /\ UNCHANGED <<argv, entered, session, ctrl, info, result, content, i>>

(* Variant: the message is printed but the return is missing. *)
BasicNoSessionsFallThrough ==
    /\ pc = "b15"
    /\ NotSessions(sessions)
    /\ trace' = Append(trace, Out("no_sessions_found", <<>>))
    /\ i' = 1
    /\ pc' = "b19"
    /\ UNCHANGED <<argv, status, entered, sessions, session, ctrl, info,
                   result, content>>

BasicNoSessions ==
    /\ pc = "b15"
    /\ NotSessions(sessions)
    /\ trace' = Append(trace, Out("no_sessions_found", <<>>))
    /\ Return
    /\ UNCHANGED <<argv, entered, sessions, session, ctrl, info, result,
                   content, i>>

BasicEnterLoop ==
    /\ pc = "b15"
    /\ ~NotSessions(sessions)
    /\ i' = 1
    /\ pc' = "b19"
    /\ UNCHANGED <<argv, status, entered, sessions, session, ctrl, info,
                   result, content, trace>>

BasicPrintSession ==
    /\ pc = "b19"
    /\ i <= Len(sessions)
    /\ trace' = Append(trace, Out("session_item", <<sessions[i]>>))
    /\ i' = i + 1
    /\ UNCHANGED <<argv, pc, status, entered, sessions, session, ctrl, info,
                   result, content>>

BasicSelect ==
    /\ pc = "b19"
    /\ i > Len(sessions)
    /\ session' = FirstSession(sessions)
    /\ trace' = Append(trace, Out("connecting", <<FirstSession(sessions)>>))
    /\ pc' = "b26"
    /\ UNCHANGED <<argv, status, entered, sessions, ctrl, info, result,
                   content, i>>

BasicConstruct ==
    /\ pc = "b26"
    /\ \/ /\ ctrl' = session
          /\ trace' = Append(trace, Call("TmuxController", <<session>>, 0, "ok"))
          /\ pc' = "b29"
          /\ UNCHANGED status
       \/ /\ Raise(Call("TmuxController", <<session>>, 0, "raise"))
          /\ UNCHANGED ctrl
    /\ UNCHANGED <<argv, entered, sessions, session, info, result, content, i>>

(* Variant: the result of session_exists is not looked at. *)
AfterSessionExistsIgnored(exists) ==
    /\ trace' = Append(trace,
                  Call("session_exists", <<ctrl>>, 0,
                       IF exists THEN "True" ELSE "False"))
    /\ pc' = "b34"
    /\ UNCHANGED status

(* Where the run goes after session_exists returned exists. *)
AfterSessionExists(exists) ==
    IF ~exists
      THEN /\ trace' = Append(Append(trace,
                          Call("session_exists", <<ctrl>>, 0, "False")),
                          Out("session_not_found", <<session>>))
           /\ Return
      ELSE /\ trace' = Append(trace,
                          Call("session_exists", <<ctrl>>, 0, "True"))
           /\ pc' = "b34"
           /\ UNCHANGED status

BasicSessionExists ==
    /\ pc = "b29"
    /\ \/ \E exists \in BOOLEAN : AfterSessionExists(exists)
       \/ Raise(Call("session_exists", <<ctrl>>, 0, "raise"))
    /\ UNCHANGED <<argv, entered, sessions, session, ctrl, info, result,
                   content, i>>

BasicInfoHeader ==
    /\ pc = "b34"
    /\ trace' = Append(trace, Out("pane_info_header", <<>>))
    /\ pc' = "b35"
    /\ UNCHANGED <<argv, status, entered, sessions, session, ctrl, info,
                   result, content, i>>

BasicGetPaneInfo ==
    /\ pc = "b35"
    /\ \/ \E m \in PaneInfos :
            /\ info' = m
            /\ i' = 1
            /\ trace' = Append(trace, Call("get_pane_info", <<ctrl>>, 0, "ok"))
            /\ pc' = "b36"
            /\ UNCHANGED status
       \/ /\ Raise(Call("get_pane_info", <<ctrl>>, 0, "raise"))
          /\ UNCHANGED <<info, i>>
    /\ UNCHANGED <<argv, entered, sessions, session, ctrl, result, content>>

BasicPrintInfo ==
    /\ pc = "b36"
    /\ i <= Len(info)
    /\ trace' = Append(trace, Out("info_item", info[i]))
    /\ i' = i + 1
    /\ UNCHANGED <<argv, pc, status, entered, sessions, session, ctrl, info,
                   result, content>>

(* Variant: an empty pane-info mapping ends the routine. *)
BasicPwdHeaderGuarded ==
    /\ pc = "b36"
    /\ i > Len(info)
    /\ IF info = <<>>
         THEN Return /\ UNCHANGED trace
         ELSE /\ trace' = Append(trace, Out("execute_header", <<"pwd">>))
              /\ pc' = "b41"
              /\ UNCHANGED status
    /\ UNCHANGED <<argv, entered, sessions, session, ctrl, info, result,
                   content, i>>

BasicPwdHeader ==
    /\ pc = "b36"
    /\ i > Len(info)
    /\ trace' = Append(trace, Out("execute_header", <<"pwd">>))
    /\ pc' = "b41"
    /\ UNCHANGED <<argv, status, entered, sessions, session, ctrl, info,
                   result, content, i>>

(* ctrl.execute_and_capture(cmd, wait_time=wait) at program point at. *)
ExecuteAndCapture(at, cmd, wait, next) ==
    /\ pc = at
    /\ \/ \E o \in Outputs :
            /\ result' = o
            /\ trace' = Append(trace,
                          Call("execute_and_capture", <<ctrl, cmd>>, wait, "ok"))
            /\ pc' = next
            /\ UNCHANGED status
       \/ /\ Raise(Call("execute_and_capture", <<ctrl, cmd>>, wait, "raise"))
          /\ UNCHANGED result
    /\ UNCHANGED <<argv, entered, sessions, session, ctrl, info, content, i>>

(* Variant: the two commands are issued in the other order. *)
BasicExecPwdSwapped == ExecuteAndCapture("b41", "ls -la", LsWait, "b42")

BasicExecPwd == ExecuteAndCapture("b41", "pwd", PwdWait, "b42")

BasicPwdOutput ==
    /\ pc = "b42"
    /\ trace' = Append(Append(trace, Out("output", <<result>>)),
                       Out("execute_header", <<"ls -la">>))
    /\ pc' = "b46"
    /\ UNCHANGED <<argv, status, entered, sessions, session, ctrl, info,
                   result, content, i>>

BasicExecLs == ExecuteAndCapture("b46", "ls -la", LsWait, "b47")

BasicLsOutput ==
    /\ pc = "b47"
    /\ trace' = Append(Append(trace, Out("output", <<result>>)),
                       Out("pane_content_header", <<>>))
    /\ pc' = "b51"
    /\ UNCHANGED <<argv, status, entered, sessions, session, ctrl, info,
                   result, content, i>>

BasicCapturePane ==
    /\ pc = "b51"
    /\ \/ \E o \in Outputs :
            /\ content' = o
            /\ trace' = Append(trace,
                          Call("capture_pane", <<ctrl>>, CaptureStart, "ok"))
            /\ pc' = "b52"
            /\ UNCHANGED status
       \/ /\ Raise(Call("capture_pane", <<ctrl>>, CaptureStart, "raise"))
          /\ UNCHANGED content
    /\ UNCHANGED <<argv, entered, sessions, session, ctrl, info, result, i>>

BasicPrintContent ==
    /\ pc = "b52"
    /\ trace' = Append(trace, Out("content", <<content>>))
    /\ Return
    /\ UNCHANGED <<argv, entered, sessions, session, ctrl, info, result,
                   content, i>>

demo_basic_usage ==
    \/ BasicHeader
    \/ BasicListSessions
    \/ BasicNoSessions
    \/ BasicEnterLoop
    \/ BasicPrintSession
    \/ BasicSelect
    \/ BasicConstruct
    \/ BasicSessionExists
    \/ BasicInfoHeader
    \/ BasicGetPaneInfo
    \/ BasicPrintInfo
    \/ BasicPwdHeader
    \/ BasicExecPwd
    \/ BasicPwdOutput
    \/ BasicExecLs
    \/ BasicLsOutput
    \/ BasicCapturePane
    \/ BasicPrintContent

----------------------------------------------------------------------------
(* demo_interactive_control *)

InterListSessions ==
    /\ pc = "i57"
    /\ \/ \E s \in SessionLists :
            /\ sessions' = s
            /\ trace' = Append(trace, Call("list_sessions", <<>>, 0, "ok"))
            /\ pc' = "i58"
            /\ UNCHANGED status
       \/ /\ Raise(Call("list_sessions", <<>>, 0, "raise"))
          /\ UNCHANGED sessions
    /\ UNCHANGED <<argv, entered, session, ctrl, info, result, content, i>>

InterNoSessions ==
    /\ pc = "i58"
    /\ NotSessions(sessions)
    /\ trace' = Append(trace, Out("no_sessions_available", <<>>))
    /\ Return
    /\ UNCHANGED <<argv, entered, sessions, session, ctrl, info, result,
                   content, i>>

(* Variant: the interactive routine checks the session like the basic one. *)
InterConstructChecked ==
    /\ pc = "i58"
    /\ ~NotSessions(sessions)
    /\ \/ /\ ctrl' = FirstSession(sessions)
          /\ i' = 1
          /\ \/ /\ trace' = Append(Append(trace,
                         Call("TmuxController", <<FirstSession(sessions)>>, 0, "ok")),
                         Call("session_exists", <<FirstSession(sessions)>>, 0, "True"))
                /\ pc' = "i72"
                /\ UNCHANGED status
             \/ /\ trace' = Append(Append(trace,
                         Call("TmuxController", <<FirstSession(sessions)>>, 0, "ok")),
                         Call("session_exists", <<FirstSession(sessions)>>, 0, "False"))
                /\ Return
       \/ /\ Raise(Call("TmuxController", <<FirstSession(sessions)>>, 0, "raise"))
          /\ UNCHANGED <<ctrl, i>>
    /\ UNCHANGED <<argv, entered, sessions, session, info, result, content>>

InterConstruct ==
    /\ pc = "i58"
    /\ ~NotSessions(sessions)
    /\ \/ /\ ctrl' = FirstSession(sessions)
          /\ i' = 1
          /\ trace' = Append(trace,
                        Call("TmuxController", <<FirstSession(sessions)>>, 0, "ok"))
          /\ pc' = "i72"
          /\ UNCHANGED status
       \/ /\ Raise(Call("TmuxController", <<FirstSession(sessions)>>, 0, "raise"))
          /\ UNCHANGED <<ctrl, i>>
    /\ UNCHANGED <<argv, entered, sessions, session, info, result, content>>

InterPrintSending ==
    /\ pc = "i72"
    /\ i <= Len(commands)
    /\ trace' = Append(trace, Out("sending", <<commands[i]>>))
    /\ pc' = "i74"
    /\ UNCHANGED <<argv, status, entered, sessions, session, ctrl, info,
                   result, content, i>>

InterSendCommand ==
    /\ pc = "i74"
    /\ \/ /\ trace' = Append(trace,
                        Call("send_command", <<ctrl, commands[i]>>, 0, "ok"))
          /\ pc' = "i76"
          /\ UNCHANGED status
       \/ Raise(Call("send_command", <<ctrl, commands[i]>>, 0, "raise"))
    /\ UNCHANGED <<argv, entered, sessions, session, ctrl, info, result,
                   content, i>>

(* Variant: the pause separates sends, none follows the last one. *)
InterSleepBetween ==
    /\ pc = "i76"
    /\ trace' = IF i < Len(commands) THEN Append(trace, Sleep(SendPause))
                                     ELSE trace
    /\ i' = i + 1
    /\ pc' = "i72"
    /\ UNCHANGED <<argv, status, entered, sessions, session, ctrl, info,
                   result, content>>

InterSleep ==
    /\ pc = "i76"
    /\ trace' = Append(trace, Sleep(SendPause))
    /\ i' = i + 1
    /\ pc' = "i72"
    /\ UNCHANGED <<argv, status, entered, sessions, session, ctrl, info,
                   result, content>>

InterLoopEnd ==
    /\ pc = "i72"
    /\ i > Len(commands)
    /\ Return
    /\ UNCHANGED <<argv, entered, sessions, session, ctrl, info, result,
                   content, i, trace>>

demo_interactive_control ==
    \/ InterListSessions
    \/ InterNoSessions
    \/ InterConstruct
    \/ InterPrintSending
    \/ InterSendCommand
    \/ InterSleep
    \/ InterLoopEnd

----------------------------------------------------------------------------
Next == Main \/ demo_basic_usage \/ demo_interactive_control

Spec == Init /\ [][Next]_vars

(* Every controller call returns or raises, and the interpreter keeps      *)
(* executing statements until the module ends.                             *)
FairSpec == Spec /\ WF_vars(Next)

----------------------------------------------------------------------------
(* Observations on the trace *)

InstanceOps == {"session_exists", "get_pane_info", "execute_and_capture",
                "capture_pane", "send_command"}

BasicOnlyOps == InstanceOps \ {"send_command"}

IsCall(e) == e.kind = "call"

Calls == SelectSeq(trace, IsCall)

CallsOf(ops) == SelectSeq(trace, LAMBDA e : IsCall(e) /\ e.op \in ops)

Prints(tag) == SelectSeq(trace, LAMBDA e : e.kind = "print" /\ e.op = tag)

Last(s) == s[Len(s)]

(* list_sessions has returned (the value is in sessions) *)
Listed == \E k \in 1..Len(trace) :
             IsCall(trace[k]) /\ trace[k].op = "list_sessions"
                              /\ trace[k].res = "ok"

(* session_exists has returned r ("True" or "False") *)
ExistsReturned(r) == \E k \in 1..Len(trace) :
                        IsCall(trace[k]) /\ trace[k].op = "session_exists"
                                         /\ trace[k].res = r

BasicPCs == {"b13", "b14", "b15", "b19", "b26", "b29", "b34", "b35", "b36",
             "b41", "b42", "b46", "b47", "b51", "b52"}

InterPCs == {"i57", "i58", "i72", "i74", "i76"}

InBasic == "basic" \in entered

InInteractive == "interactive" \in entered

----------------------------------------------------------------------------
(* C1: on either path, once list_sessions has returned an empty sequence   *)
(* the only thing the run still does is print the no-sessions message and  *)
(* end normally: no controller is constructed and no instance operation    *)
(* is ever called.                                                         *)
C1_EmptyListStops ==
    (Listed /\ sessions = <<>>) =>
        /\ CallsOf({"TmuxController"} \cup InstanceOps) = <<>>
        /\ Len(Calls) = 1
        /\ ctrl = None
        /\ \/ pc \in {"b15", "i58"} /\ status = "running"
                                    /\ IsCall(Last(trace))
           \/ /\ pc = "exit"
              /\ status = "done"
              /\ Last(trace) \in {Out("no_sessions_found", <<>>),
                                  Out("no_sessions_available", <<>>)}
              /\ IsCall(trace[Len(trace) - 1])
              /\ InBasic => Last(trace) = Out("no_sessions_found", <<>>)
              /\ InInteractive
                   => Last(trace) = Out("no_sessions_available", <<>>)

C1_Witness ==
    /\ Listed
    /\ sessions = <<>>
    /\ pc = "exit"
    /\ InInteractive
    /\ Last(trace) = Out("no_sessions_available", <<>>)

(* C2: dispatch is decided by the first argument only and is exclusive:    *)
(* the interactive path runs exactly when the first argument is            *)
(* --interactive, otherwise the basic path runs; the interactive path      *)
(* calls no instance operation but send_command, the basic path never      *)
(* calls send_command, and no run enters both paths.                       *)
C2_ExclusiveDispatch ==
    /\ Cardinality(entered) <= 1
    /\ pc = "main" => entered = {} /\ trace = <<>>
    /\ pc # "main" =>
         IF Len(argv) >= 1 /\ argv[1] = "--interactive"
           THEN entered = {"interactive"}
           ELSE entered = {"basic"}
    /\ pc \in BasicPCs => InBasic
    /\ pc \in InterPCs => InInteractive
    /\ InInteractive => CallsOf(BasicOnlyOps) = <<>>
    /\ InBasic => CallsOf({"send_command"}) = <<>>
    /\ InBasic => Prints("sending") = <<>>
    /\ InInteractive => Prints("sessions_header") = <<>>

C2_Witness ==
    /\ Len(argv) = 2
    /\ argv[1] = "--other"
    /\ argv[2] = "--interactive"
    /\ pc = "exit"
    /\ status = "done"
    /\ entered = {"basic"}
    /\ Len(CallsOf({"capture_pane"})) = 1

(* C3: whenever list_sessions has returned a non-empty sequence, at most   *)
(* one controller is constructed, always on the first element of that      *)
(* sequence; once the construction point is passed it has been constructed *)
(* exactly once, and every instance operation is issued after it and on    *)
(* that controller.                                                        *)
C3_FirstSessionOnly ==
    (Listed /\ sessions # <<>>) =>
        /\ Len(CallsOf({"TmuxController"})) <= 1
        /\ \A k \in 1..Len(trace) :
             (IsCall(trace[k]) /\ trace[k].op = "TmuxController")
                => /\ trace[k].args = <<sessions[1]>>
                   /\ \A j \in 1..(k - 1) :
                        ~(IsCall(trace[j]) /\ trace[j].op \in InstanceOps)
        /\ \A k \in 1..Len(trace) :
             (IsCall(trace[k]) /\ trace[k].op \in InstanceOps)
                => /\ trace[k].args[1] = sessions[1]
                   /\ Calls[2] = Call("TmuxController", <<sessions[1]>>, 0, "ok")
        /\ ctrl \in {None, sessions[1]}
        /\ pc \notin {"b15", "b19", "b26", "i58"}
             => Len(CallsOf({"TmuxController"})) = 1

C3_Witness ==
    /\ Listed
    /\ Len(sessions) >= 2
    /\ sessions[1] # sessions[2]
    /\ ctrl = sessions[1]
    /\ pc = "exit"
    /\ status = "done"
    /\ Len(CallsOf(InstanceOps)) >= 4

----------------------------------------------------------------------------
Ops(cs) == [k \in 1..Len(cs) |-> cs[k].op]

NoRaise == \A k \in 1..Len(trace) : trace[k].res # "raise"

BasicInstanceOps == <<"session_exists", "get_pane_info",
                      "execute_and_capture", "execute_and_capture",
                      "capture_pane">>

(* C4, as stated: in the basic path, a run that listed a non-empty         *)
(* sequence and in which no controller call failed is never stopped early: *)
(* it has called get_pane_info, execute_and_capture twice and capture_pane *)
(* by the time it ends.                                                    *)
C4_OnlyEmptyListStops ==
    (InBasic /\ Listed /\ sessions # <<>> /\ pc = "exit" /\ status = "done")
        => Ops(CallsOf(BasicOnlyOps)) = BasicInstanceOps

(* C4, amended: the same, for the runs in which session_exists returned    *)
(* true; whatever get_pane_info, execute_and_capture and capture_pane      *)
(* return, nothing else stops the run early.                               *)
C4_NothingElseStops ==
    (InBasic /\ Listed /\ sessions # <<>> /\ pc = "exit" /\ status = "done"
       /\ ~ExistsReturned("False"))
        => /\ Ops(CallsOf(BasicOnlyOps)) = BasicInstanceOps
           /\ Last(trace) = Out("content", <<content>>)

C4_Witness ==
    /\ InBasic
    /\ sessions # <<>>
    /\ pc = "exit"
    /\ status = "done"
    /\ ExistsReturned("True")
    /\ info = <<>>
    /\ result = ""
    /\ content = ""
    /\ Ops(CallsOf(BasicOnlyOps)) = BasicInstanceOps

(* C5: a controller call that raises is the last event of the run: it is   *)
(* not retried, no controller call (nor anything else) follows it, the run *)
(* is over and its state is failed, never done; and a run is failed only   *)
(* through such a call.                                                    *)
C5_FailurePropagates ==
    /\ \A k \in 1..Len(trace) :
         trace[k].res = "raise"
            => /\ k = Len(trace)
               /\ IsCall(trace[k])
               /\ status = "failed"
               /\ pc = "exit"
    /\ status = "failed"
         => trace # <<>> /\ Last(trace).res = "raise" /\ pc = "exit"
    /\ status = "done" => NoRaise /\ pc = "exit"
    /\ pc = "exit" => ~ENABLED Next

C5_Witness ==
    /\ status = "failed"
    /\ pc = "exit"
    /\ Last(trace) = Call("execute_and_capture", <<ctrl, "ls -la">>, 500, "raise")
    /\ Len(CallsOf({"execute_and_capture"})) = 2

(* The controller calls of a complete basic run on the session first. *)
BasicCalls(first) ==
    << Call("list_sessions", <<>>, 0, "ok"),
       Call("TmuxController", <<first>>, 0, "ok"),
       Call("session_exists", <<first>>, 0, "True"),
       Call("get_pane_info", <<first>>, 0, "ok"),
       Call("execute_and_capture", <<first, "pwd">>, 300, "ok"),
       Call("execute_and_capture", <<first, "ls -la">>, 500, "ok"),
       Call("capture_pane", <<first>>, -10, "ok") >>

(* Position in the trace of the first call of op (0 if there is none). *)
FirstCallAt(op) ==
    IF \E k \in 1..Len(trace) : IsCall(trace[k]) /\ trace[k].op = op
      THEN CHOOSE k \in 1..Len(trace) :
             /\ IsCall(trace[k]) /\ trace[k].op = op
             /\ \A j \in 1..(k - 1) : ~(IsCall(trace[j]) /\ trace[j].op = op)
      ELSE 0

(* The session names printed by the listing loop, in order of printing. *)
ListedNames ==
    [k \in 1..Len(Prints("session_item")) |-> Prints("session_item")[k].args[1]]

(* C6: in the basic path, while session_exists has not returned false and  *)
(* no call has failed, the controller calls made so far are an initial     *)
(* part of: list_sessions, construction on the first session,              *)
(* session_exists, get_pane_info, execute_and_capture "pwd",               *)
(* execute_and_capture "ls -la", capture_pane from line -10; a run that    *)
(* ends normally has made all seven, each once; and every session name has *)
(* been printed once, in returned order, before the construction.          *)
C6_BasicCallOrder ==
    (InBasic /\ NoRaise /\ ~ExistsReturned("False")) =>
        /\ Len(Calls) <= 7
        /\ \A k \in 1..Len(Calls) :
             Calls[k] = BasicCalls(IF sessions = <<>> THEN None
                                                      ELSE sessions[1])[k]
        /\ (pc = "exit" /\ sessions # <<>>) => Len(Calls) = 7
        /\ Len(Calls) >= 2 =>
             /\ ListedNames = sessions
             /\ \A k \in 1..Len(trace) :
                  (trace[k].kind = "print" /\ trace[k].op = "session_item")
                     => /\ k < FirstCallAt("TmuxController")
                        /\ k > FirstCallAt("list_sessions")

C6_Witness ==
    /\ InBasic
    /\ pc = "exit"
    /\ status = "done"
    /\ Len(sessions) = 2
    /\ sessions[1] # sessions[2]
    /\ Calls = BasicCalls(sessions[1])
    /\ ListedNames = sessions

----------------------------------------------------------------------------
(* The send_command calls of a complete interactive run on session first. *)
InterSends(first) ==
    << Call("send_command", <<first, "echo 'Starting task...'">>, 0, "ok"),
       Call("send_command", <<first, "date">>, 0, "ok"),
       Call("send_command", <<first, "hostname">>, 0, "ok"),
       Call("send_command", <<first, "echo 'Task complete!'">>, 0, "ok") >>

Sleeps == SelectSeq(trace, LAMBDA e : e.kind = "sleep")

(* C7: in the interactive path, while no call has failed, the sends made   *)
(* so far are an initial part of the four commands in their fixed order;   *)
(* a run on a non-empty list that ends normally has made all four; every   *)
(* send that returned is directly followed by a pause of 200 ms, the last  *)
(* one included, before the next send or the end of the run; and no output *)
(* is ever read or captured.                                               *)
C7_FourSendsWithPauses ==
    (InInteractive /\ NoRaise) =>
        /\ Len(CallsOf({"send_command"})) <= 4
        /\ \A k \in 1..Len(CallsOf({"send_command"})) :
             CallsOf({"send_command"})[k] = InterSends(sessions[1])[k]
        /\ (pc = "exit" /\ sessions # <<>>)
             => /\ Len(CallsOf({"send_command"})) = 4
                /\ Len(Sleeps) = 4
                /\ Last(trace) = Sleep(200)
        /\ \A k \in 1..Len(trace) :
             /\ (IsCall(trace[k]) /\ trace[k].op = "send_command")
                  => /\ k = Len(trace) => pc = "i76"
                     /\ k < Len(trace) => trace[k + 1] = Sleep(200)
                     /\ trace[k - 1] = Out("sending", <<trace[k].args[2]>>)
             /\ trace[k].kind = "sleep"
                  => IsCall(trace[k - 1]) /\ trace[k - 1].op = "send_command"
        /\ CallsOf({"execute_and_capture", "capture_pane", "get_pane_info"})
             = <<>>
        /\ result = None
        /\ content = None

C7_Witness ==
    /\ InInteractive
    /\ pc = "exit"
    /\ status = "done"
    /\ Len(sessions) = 2
    /\ CallsOf({"send_command"}) = InterSends(sessions[1])
    /\ Len(Sleeps) = 4
    /\ Last(trace) = Sleep(200)

(* C8: in the basic path, once session_exists has returned false the run   *)
(* has printed the session-not-found message for the first listed session  *)
(* and ended normally, and get_pane_info, execute_and_capture and          *)
(* capture_pane are never called.                                          *)
C8_MissingSessionStops ==
    (InBasic /\ ExistsReturned("False")) =>
        /\ pc = "exit"
        /\ status = "done"
        /\ Last(trace) = Out("session_not_found", <<sessions[1]>>)
        /\ trace[Len(trace) - 1]
             = Call("session_exists", <<sessions[1]>>, 0, "False")
        /\ CallsOf({"get_pane_info", "execute_and_capture", "capture_pane",
                    "send_command"}) = <<>>
        /\ Len(Calls) = 3

C8_Witness ==
    /\ InBasic
    /\ ExistsReturned("False")
    /\ pc = "exit"
    /\ Len(sessions) = 2
    /\ Last(trace) = Out("session_not_found", <<sessions[1]>>)

(* C9: the interactive path never calls session_exists: on a non-empty     *)
(* list the first controller call after the construction is the first      *)
(* send_command; nothing but a raising call keeps the run from making all  *)
(* four sends, to the first listed session.                                *)
C9_InteractiveNoExistsCheck ==
    InInteractive =>
        /\ CallsOf({"session_exists"}) = <<>>
        /\ Len(Calls) >= 3 => Calls[3].op = "send_command"
        /\ \A k \in 1..Len(Calls) :
             k >= 3 => /\ Calls[k].op = "send_command"
                       /\ Calls[k].args[1] = sessions[1]
        /\ (pc = "exit" /\ sessions # <<>> /\ Len(Calls) < 6)
             => status = "failed"
        /\ (pc = "exit" /\ sessions # <<>> /\ status = "done")
             => Ops(Calls) = <<"list_sessions", "TmuxController",
                               "send_command", "send_command",
                               "send_command", "send_command">>

C9_Witness ==
    /\ InInteractive
    /\ pc = "exit"
    /\ status = "done"
    /\ sessions # <<>>
    /\ CallsOf({"session_exists"}) = <<>>
    /\ Len(Calls) = 6
    /\ ctrl = sessions[1]

(* The number of controller calls of a run is bounded whatever the         *)
(* arguments, the listed sessions and the returned values.                 *)
C10_CallBounds ==
    /\ Len(CallsOf({"list_sessions"})) <= 1
    /\ pc = "exit" => Len(CallsOf({"list_sessions"})) = 1
    /\ Len(CallsOf({"TmuxController"})) <= 1
    /\ InBasic => Len(CallsOf(InstanceOps)) <= 5
    /\ InInteractive => Len(CallsOf(InstanceOps)) <= 4
    /\ \A j, k \in 1..Len(Calls) : j # k => Calls[j] # Calls[k]

(* C10: every run reaches its end, and at every point it has called        *)
(* list_sessions at most once (exactly once when it ends), constructed at  *)
(* most one controller and made at most five instance calls on the basic   *)
(* path and four on the interactive path, no call being made twice.        *)
C10_TerminatesBounded == <>(pc = "exit") /\ []C10_CallBounds

C10_Witness ==
    /\ pc = "exit"
    /\ status = "done"
    /\ InBasic
    /\ Len(sessions) >= 2
    /\ Len(CallsOf({"list_sessions"})) = 1
    /\ Len(CallsOf({"TmuxController"})) = 1
    /\ Len(CallsOf(InstanceOps)) = 5

====
